---- MODULE Spec2Model ----
(***************************************************************************)
(* ZID cache file (zrtp/ZIDCacheFile.cpp): a file of fixed-size records,   *)
(* record 0 holding the store's own ZID, later records one peer each.      *)
(*                                                                         *)
(* A file is modelled as a sequence of cells, one cell per record field,   *)
(* so that fread / fwrite act on offsets exactly as the code's calls do    *)
(* (short reads at end of file, writes at the current position).           *)
(***************************************************************************)
EXTENDS Integers, Sequences, FiniteSets, TLC

(* ------------------------------- bounds -------------------------------- *)
MaxPeers  == 2      \* getRecord does not grow a file beyond the own record and this many more
MaxSecret == 1      \* retained-secret values 1..MaxSecret (0 is the zeroed slot)
MaxErrors == 2      \* cap of the static error counter

NULL    == ""
Paths   == {"a.zid", "b.zid"}               \* names the caller passes to open()
Zids    == {11, 12}                         \* identifiers: random own ZIDs, peer ZIDs
Secrets == 1..MaxSecret

FileOf(name) == <<name, "">>
SaveOf(name) == <<name, ".save">>           \* std::string(name) + ".save"
Names == {FileOf(p) : p \in Paths} \cup {SaveOf(p) : p \in Paths}
NoFile == [ex |-> FALSE, data |-> <<>>]

Max(a, b) == IF a > b THEN a ELSE b

(* ------------------------------ C stdio -------------------------------- *)
\* fread(buf, len, 1, f) at offset pos: one item or none; a short read
\* consumes what is left and leaves the position at end of file.
fread(data, pos, len) ==
    IF pos + len <= Len(data)
    THEN [n |-> 1, buf |-> SubSeq(data, pos + 1, pos + len), pos |-> pos + len]
    ELSE [n |-> 0, buf |-> <<>>, pos |-> Max(pos, Len(data))]

\* fwrite(cells, len, 1, f) at offset pos of which n cells reach the file
\* (n = Len(cells): the write succeeded). A write past the end zero-fills.
fwrite(data, pos, cells, n) ==
    IF n = 0 THEN data
    ELSE [i \in 1..Max(Len(data), pos + n) |->
             IF i > pos /\ i <= pos + n THEN cells[i - pos]
             ELSE IF i <= Len(data) THEN data[i] ELSE 0]

\* what the environment does to the calls of one operation: whether rename
\* and fopen(name, "wb+") succeed, which of the operation's fwrite calls fail
\* (by ordinal) and how many cells of a failed write reach the file
NoFault == [renameOk |-> TRUE, fopenOk |-> TRUE, failAt |-> {}, part |-> 0]

(* --------------------- ZIDRecordFile (record codec) -------------------- *)
\* current format: <<version, flags, identifier, rs1Data, rs2Data>>
getRecordLength == 5
Valid        == 1
SASVerified  == 2
OwnZIDRecord == 32

HasBit(f, b) == (f \div b) % 2 = 1
SetBit(f, b) == IF HasBit(f, b) THEN f ELSE f + b
ClrBit(f, b) == IF HasBit(f, b) THEN f - b ELSE f

ZIDRecordFile == <<2, 0, 0, 0, 0>>
setZid(rec, zid)      == [rec EXCEPT ![3] = zid]
setValid(rec)         == [rec EXCEPT ![2] = SetBit(rec[2], Valid)]
setOwnZIDRecord(rec)  == [rec EXCEPT ![2] = SetBit(rec[2], OwnZIDRecord)]
setSasVerified(rec)   == [rec EXCEPT ![2] = SetBit(rec[2], SASVerified)]
resetSasVerified(rec) == [rec EXCEPT ![2] = ClrBit(rec[2], SASVerified)]
\* the old RS1 moves to the RS2 slot, the new value becomes RS1
setNewRs1(rec, d)     == [rec EXCEPT ![4] = d, ![5] = rec[4]]
isValid(rec)          == HasBit(rec[2], Valid)
isOwnZIDRecord(rec)   == HasBit(rec[2], OwnZIDRecord)
isSasVerified(rec)    == HasBit(rec[2], SASVerified)
getIdentifier(rec)    == rec[3]
getRs1Data(rec)       == rec[4]
getRs2Data(rec)       == rec[5]

\* legacy format zidrecord1_t:
\* <<recValid, ownZid, rs1Valid, rs2Valid, identifier, rs1Data, rs2Data>>
sizeofZidrecord1 == 7
recValidOf(r)   == r[1]
ownZidOf(r)     == r[2]
rs1ValidOf(r)   == r[3]
identifierOf(r) == r[5]
rs1DataOf(r)    == r[6]
rs2DataOf(r)    == r[7]

(* ------------------------------- state --------------------------------- *)
VARIABLES
    fs,             \* the files on disk: name -> [ex, data]
    zidFile,        \* the open handle: NULL or the name it was opened with
    associatedZid,  \* the cached own ZID
    errors,         \* static int errors
    generated,      \* the last ZID randomZRTP produced (0: none yet)
    held,           \* the ZIDRecordFile object the caller holds
    last,           \* the last call on the cache and what it returned
    identity,       \* per file name: the own ZID its first successful open gave
    saved           \* per file name and ZID: the record data last passed to saveRecord

vars == <<fs, zidFile, associatedZid, errors, generated, held, last,
          identity, saved>>

State == [fs |-> fs, zidFile |-> zidFile, associatedZid |-> associatedZid,
          errors |-> errors, generated |-> generated]

(* ---------------------------- ZIDCacheFile ----------------------------- *)
\* cells of one fwrite that reach the file: all of them unless the
\* environment fails this write (the w-th of the operation)
Written(io, w) == IF w \in io.failAt THEN io.part ELSE getRecordLength
Failed(io, w)  == IF Written(io, w) < getRecordLength THEN 1 ELSE 0

\* createZIDFile without rec.setOwnZIDRecord()
createZIDFilePlain(st, name, rnd, io) ==
    IF ~io.fopenOk
    THEN [st EXCEPT !.zidFile = NULL]
    ELSE [fs            |-> [st.fs EXCEPT ![FileOf(name)] =
                               [ex |-> TRUE,
                                data |-> fwrite(<<>>, 0, setZid(ZIDRecordFile, rnd),
                                                Written(io, 1))]],
          zidFile       |-> name,
          associatedZid |-> rnd,
          errors        |-> st.errors + Failed(io, 1),
          generated     |-> rnd]

\* fopen(name, "wb+"), random ZID, own record written at offset 0
createZIDFile(st, name, rnd, io) ==
    IF ~io.fopenOk
    THEN [st EXCEPT !.zidFile = NULL]
    ELSE LET rec == setOwnZIDRecord(setZid(ZIDRecordFile, rnd))
         IN  [fs            |-> [st.fs EXCEPT ![FileOf(name)] =
                                   [ex |-> TRUE,
                                    data |-> fwrite(<<>>, 0, rec, Written(io, 1))]],
              zidFile       |-> name,
              associatedZid |-> rnd,
              errors        |-> st.errors + Failed(io, 1),
              generated     |-> rnd]

\* the copy loop without the test of recValid
RECURSIVE copyRecordsAll(_, _, _, _, _)
copyRecordsAll(old, pos, new, w, io) ==
    LET r == fread(old, pos, sizeofZidrecord1)
    IN  IF r.n = 0 THEN [data |-> new, errors |-> 0]
        ELSE IF ownZidOf(r.buf) = 1
        THEN copyRecordsAll(old, r.pos, new, w, io)
        ELSE LET a    == setValid(setZid(ZIDRecordFile, identifierOf(r.buf)))
                 b    == IF HasBit(rs1ValidOf(r.buf), SASVerified)
                         THEN setSasVerified(a) ELSE a
                 rec2 == setNewRs1(setNewRs1(b, rs2DataOf(r.buf)), rs1DataOf(r.buf))
                 rest == copyRecordsAll(old, r.pos,
                                        fwrite(new, Len(new), rec2, Written(io, w)),
                                        w + 1, io)
             IN  [data |-> rest.data, errors |-> rest.errors + Failed(io, w)]

\* the copy loop with the two setNewRs1 calls in the other order: first
\* rs1Data, then rs2Data
RECURSIVE copyRecordsSwapped(_, _, _, _, _)
copyRecordsSwapped(old, pos, new, w, io) ==
    LET r == fread(old, pos, sizeofZidrecord1)
    IN  IF r.n = 0 THEN [data |-> new, errors |-> 0]
        ELSE IF ownZidOf(r.buf) = 1 \/ recValidOf(r.buf) = 0
        THEN copyRecordsSwapped(old, r.pos, new, w, io)
        ELSE LET a    == setValid(setZid(ZIDRecordFile, identifierOf(r.buf)))
                 b    == IF HasBit(rs1ValidOf(r.buf), SASVerified)
                         THEN setSasVerified(a) ELSE a
                 rec2 == setNewRs1(setNewRs1(b, rs1DataOf(r.buf)), rs2DataOf(r.buf))
                 rest == copyRecordsSwapped(old, r.pos,
                                            fwrite(new, Len(new), rec2, Written(io, w)),
                                            w + 1, io)
             IN  [data |-> rest.data, errors |-> rest.errors + Failed(io, w)]

\* the copy loop left at the first fwrite that fails
RECURSIVE copyRecordsAbort(_, _, _, _, _)
copyRecordsAbort(old, pos, new, w, io) ==
    LET r == fread(old, pos, sizeofZidrecord1)
    IN  IF r.n = 0 THEN [data |-> new, errors |-> 0]
        ELSE IF ownZidOf(r.buf) = 1 \/ recValidOf(r.buf) = 0
        THEN copyRecordsAbort(old, r.pos, new, w, io)
        ELSE LET a    == setValid(setZid(ZIDRecordFile, identifierOf(r.buf)))
                 b    == IF HasBit(rs1ValidOf(r.buf), SASVerified)
                         THEN setSasVerified(a) ELSE a
                 rec2 == setNewRs1(setNewRs1(b, rs2DataOf(r.buf)), rs1DataOf(r.buf))
                 out  == fwrite(new, Len(new), rec2, Written(io, w))
                 rest == copyRecordsAbort(old, r.pos, out, w + 1, io)
             IN  IF Failed(io, w) = 1
                 THEN [data |-> out, errors |-> 1]
                 ELSE [data |-> rest.data, errors |-> rest.errors]

\* the do-while of checkDoMigration: read the old records one after the
\* other, write a new record for each that is valid and not an own record.
\* w is the ordinal of the next fwrite; the writes are sequential.
RECURSIVE copyRecords(_, _, _, _, _)
copyRecords(old, pos, new, w, io) ==
    LET r == fread(old, pos, sizeofZidrecord1)
    IN  IF r.n = 0 THEN [data |-> new, errors |-> 0]
        ELSE IF ownZidOf(r.buf) = 1 \/ recValidOf(r.buf) = 0
        THEN copyRecords(old, r.pos, new, w, io)
        ELSE LET a    == setValid(setZid(ZIDRecordFile, identifierOf(r.buf)))
                 b    == IF HasBit(rs1ValidOf(r.buf), SASVerified)
                         THEN setSasVerified(a) ELSE a
                 rec2 == setNewRs1(setNewRs1(b, rs2DataOf(r.buf)), rs1DataOf(r.buf))
                 rest == copyRecords(old, r.pos,
                                     fwrite(new, Len(new), rec2, Written(io, w)),
                                     w + 1, io)
             IN  [data |-> rest.data, errors |-> rest.errors + Failed(io, w)]

\* checkDoMigration that reads the old file and then removes it instead of
\* keeping it under the ".save" name
checkDoMigrationNoBackup(st, name, rnd, io) ==
    LET peek == fread(st.fs[FileOf(name)].data, 0, 2)
        inb0 == IF peek.n < 1 THEN 0 ELSE peek.buf[1]
        e1   == st.errors + (IF peek.n < 1 THEN 1 ELSE 0)
        old  == st.fs[FileOf(name)]
        gone == [st.fs EXCEPT ![FileOf(name)] = NoFile]
        first == fread(old.data, 0, sizeofZidrecord1)
        rec   == setOwnZIDRecord(setZid(ZIDRecordFile, identifierOf(first.buf)))
        head  == fwrite(<<>>, 0, rec, Written(io, 1))
        copy  == copyRecords(old.data, first.pos, head, 2, io)
    IN  IF inb0 > 0
        THEN [st EXCEPT !.errors = e1]
        ELSE IF first.n # 1 \/ ownZidOf(first.buf) # 1 \/ ~io.fopenOk
        THEN [st EXCEPT !.fs = gone, !.zidFile = NULL, !.errors = e1]
        ELSE [st EXCEPT !.fs = [gone EXCEPT ![FileOf(name)] =
                                   [ex |-> TRUE, data |-> copy.data]],
                        !.zidFile = name,
                        !.errors = e1 + Failed(io, 1) + copy.errors]

\* checkDoMigration without the test of recOld.ownZid: any first record
\* that can be read is taken for the own record
checkDoMigrationAnyFirst(st, name, rnd, io) ==
    LET peek == fread(st.fs[FileOf(name)].data, 0, 2)
        inb0 == IF peek.n < 1 THEN 0 ELSE peek.buf[1]
        e1   == st.errors + (IF peek.n < 1 THEN 1 ELSE 0)
        old  == st.fs[FileOf(name)]
        moved == [st.fs EXCEPT ![SaveOf(name)] = old, ![FileOf(name)] = NoFile]
        first == fread(old.data, 0, sizeofZidrecord1)
        rec   == setOwnZIDRecord(setZid(ZIDRecordFile, identifierOf(first.buf)))
        head  == fwrite(<<>>, 0, rec, Written(io, 1))
        copy  == copyRecords(old.data, first.pos, head, 2, io)
    IN  IF inb0 > 0
        THEN [st EXCEPT !.errors = e1]
        ELSE IF ~io.renameOk
        THEN createZIDFile([st EXCEPT !.fs[FileOf(name)] = NoFile,
                                      !.zidFile = NULL, !.errors = e1],
                           name, rnd, io)
        ELSE IF first.n # 1 \/ ~io.fopenOk
        THEN [st EXCEPT !.fs = moved, !.zidFile = NULL, !.errors = e1]
        ELSE [st EXCEPT !.fs = [moved EXCEPT ![FileOf(name)] =
                                   [ex |-> TRUE, data |-> copy.data]],
                        !.zidFile = name,
                        !.errors = e1 + Failed(io, 1) + copy.errors]

checkDoMigration(st, name, rnd, io) ==
    LET peek == fread(st.fs[FileOf(name)].data, 0, 2)
        inb0 == IF peek.n < 1 THEN 0 ELSE peek.buf[1]
        e1   == st.errors + (IF peek.n < 1 THEN 1 ELSE 0)
        old  == st.fs[FileOf(name)]
        \* rename(name, fn) succeeded: the old file now lives under fn
        moved == [st.fs EXCEPT ![SaveOf(name)] = old, ![FileOf(name)] = NoFile]
        first == fread(old.data, 0, sizeofZidrecord1)
        rec   == setOwnZIDRecord(setZid(ZIDRecordFile, identifierOf(first.buf)))
        head  == fwrite(<<>>, 0, rec, Written(io, 1))
        copy  == copyRecords(old.data, first.pos, head, 2, io)
    IN  IF inb0 > 0
        THEN [st EXCEPT !.errors = e1]
        ELSE IF ~io.renameOk
        THEN createZIDFile([st EXCEPT !.fs[FileOf(name)] = NoFile,
                                      !.zidFile = NULL, !.errors = e1],
                           name, rnd, io)
        ELSE IF first.n # 1 \/ ownZidOf(first.buf) # 1 \/ ~io.fopenOk
        THEN [st EXCEPT !.fs = moved, !.zidFile = NULL, !.errors = e1]
        ELSE [st EXCEPT !.fs = [moved EXCEPT ![FileOf(name)] =
                                   [ex |-> TRUE, data |-> copy.data]],
                        !.zidFile = name,
                        !.errors = e1 + Failed(io, 1) + copy.errors]

\* open that creates the file whether or not one exists ("wb+" for "rb+")
openAlwaysCreate(st, name, rnd, io) ==
    IF st.zidFile # NULL THEN [st |-> st, ret |-> 0]
    ELSE LET c == createZIDFile(st, name, rnd, io)
         IN  [st |-> c, ret |-> IF c.zidFile = NULL THEN -1 ELSE 1]

\* open without the check for an already active ZID file
openAgain(st, name, rnd, io) ==
    IF ~st.fs[FileOf(name)].ex
    THEN LET c == createZIDFile(st, name, rnd, io)
         IN  [st |-> c, ret |-> IF c.zidFile = NULL THEN -1 ELSE 1]
    ELSE LET r == fread(st.fs[FileOf(name)].data, 0, getRecordLength)
         IN  IF r.n # 1 \/ ~isOwnZIDRecord(r.buf)
             THEN [st |-> [st EXCEPT !.zidFile = NULL], ret |-> -1]
             ELSE [st |-> [st EXCEPT !.zidFile = name,
                                     !.associatedZid = getIdentifier(r.buf)],
                   ret |-> 1]

\* open(name): the state it leaves and the value it returns
open(st, name, rnd, io) ==
    IF st.zidFile # NULL THEN [st |-> st, ret |-> 0]
    ELSE IF ~st.fs[FileOf(name)].ex
    THEN LET c == createZIDFile(st, name, rnd, io)
         IN  [st |-> c, ret |-> IF c.zidFile = NULL THEN -1 ELSE 1]
    ELSE LET m == checkDoMigration([st EXCEPT !.zidFile = name], name, rnd, io)
             r == fread(m.fs[FileOf(name)].data, 0, getRecordLength)
         IN  IF m.zidFile = NULL THEN [st |-> m, ret |-> -1]
             ELSE IF r.n # 1 \/ ~isOwnZIDRecord(r.buf)
             THEN [st |-> [m EXCEPT !.zidFile = NULL], ret |-> -1]
             ELSE [st |-> [m EXCEPT !.associatedZid = getIdentifier(r.buf)],
                   ret |-> 1]

close(st) == [st EXCEPT !.zidFile = NULL]

\* scan with the memcmp test inverted: the loop goes on while the
\* identifier equals zid
RECURSIVE scanInverted(_, _, _)
scanInverted(data, pos, zid) ==
    LET r == fread(data, pos, getRecordLength)
    IN  IF r.n = 0
        THEN [numRead |-> 0, pos |-> pos, at |-> r.pos, buf |-> ZIDRecordFile]
        ELSE IF getIdentifier(r.buf) = zid
             THEN scanInverted(data, r.pos, zid)
             ELSE [numRead |-> 1, pos |-> pos, at |-> r.pos, buf |-> r.buf]

\* the do-while of getRecord from offset pos: numRead, the offset of the
\* last fread (pos), the offset the stream is left at (at) and the record read
RECURSIVE scan(_, _, _)
scan(data, pos, zid) ==
    LET r == fread(data, pos, getRecordLength)
    IN  IF r.n = 0
        THEN [numRead |-> 0, pos |-> pos, at |-> r.pos, buf |-> ZIDRecordFile]
        ELSE IF isOwnZIDRecord(r.buf) \/ ~isValid(r.buf)
        THEN \* continue: in a do-while it passes control to the condition
             IF getIdentifier(r.buf) # zid
             THEN scan(data, r.pos, zid)
             ELSE [numRead |-> 1, pos |-> pos, at |-> r.pos, buf |-> r.buf]
        ELSE IF getIdentifier(r.buf) # zid
             THEN scan(data, r.pos, zid)
             ELSE [numRead |-> 1, pos |-> pos, at |-> r.pos, buf |-> r.buf]

\* getRecord with the scan started at offset 0 instead of behind record 0
getRecordFromStart(st, zid, io) ==
    LET f    == FileOf(st.zidFile)
        s    == scan(st.fs[f].data, 0, zid)
        new  == setValid(setZid(ZIDRecordFile, zid))
    IN  IF s.numRead = 0
        THEN [st  |-> [st EXCEPT !.fs[f].data =
                                     fwrite(st.fs[f].data, s.at, new, Written(io, 1)),
                                 !.errors = st.errors + Failed(io, 1)],
              rec |-> [store |-> st.zidFile, position |-> s.pos, data |-> new]]
        ELSE [st  |-> st,
              rec |-> [store |-> st.zidFile, position |-> s.pos, data |-> s.buf]]

\* getRecord(zid): the state it leaves and the record it returns. A record
\* object is its data and its position; store is the file it came from.
getRecord(st, zid, io) ==
    LET f    == FileOf(st.zidFile)
        s    == scan(st.fs[f].data, getRecordLength, zid)
        new  == setValid(setZid(ZIDRecordFile, zid))
    IN  IF s.numRead = 0
        THEN [st  |-> [st EXCEPT !.fs[f].data =
                                     fwrite(st.fs[f].data, s.at, new, Written(io, 1)),
                                 !.errors = st.errors + Failed(io, 1)],
              rec |-> [store |-> st.zidFile, position |-> s.pos, data |-> new]]
        ELSE [st  |-> st,
              rec |-> [store |-> st.zidFile, position |-> s.pos, data |-> s.buf]]

\* saveRecord without the fseek: the write lands where getRecord left the
\* stream, behind the record it read
saveRecordNoSeek(st, zidRecord, io) ==
    LET f == FileOf(st.zidFile)
    IN  [st EXCEPT !.fs[f].data = fwrite(st.fs[f].data,
                                         zidRecord.position + getRecordLength,
                                         zidRecord.data, Written(io, 1)),
                   !.errors = st.errors + Failed(io, 1)]

saveRecord(st, zidRecord, io) ==
    LET f == FileOf(st.zidFile)
    IN  [st EXCEPT !.fs[f].data = fwrite(st.fs[f].data, zidRecord.position,
                                         zidRecord.data, Written(io, 1)),
                   !.errors = st.errors + Failed(io, 1)]

(* ------------------------------ actions -------------------------------- *)
NoRecord == [store |-> NULL, position |-> 0, data |-> <<>>]

\* tick alternates with every call, so that a call is told from the caller's
\* changes to the record it holds
Call(op, name, zid, ret, zidRecord) ==
    [op |-> op, name |-> name, zid |-> zid, ret |-> ret, rec |-> zidRecord,
     tick |-> 1 - last.tick]

Become(st) ==
    /\ st.errors <= MaxErrors
    /\ fs' = st.fs
    /\ zidFile' = st.zidFile
    /\ associatedZid' = st.associatedZid
    /\ errors' = st.errors
    /\ generated' = st.generated

\* cache.open(name); rnd is what randomZRTP yields if this call asks for it
OpenWith(name, io) ==
    \E rnd \in Zids :
        LET r == open(State, name, rnd, io)
        IN  /\ Become(r.st)
            /\ last' = Call("open", name, 0, r.ret, NoRecord)
            /\ identity' = IF r.ret = 1 /\ identity[name] = 0
                           THEN [identity EXCEPT ![name] = r.st.associatedZid]
                           ELSE identity
            /\ UNCHANGED <<held, saved>>

Open(name) == OpenWith(name, NoFault)

Close ==
    /\ Become(close(State))
    /\ last' = Call("close", NULL, 0, 0, NoRecord)
    /\ UNCHANGED <<held, identity, saved>>

\* held = cache.getRecord(zid) on an open cache
GetRecordWith(zid, io) ==
    /\ zidFile # NULL
    /\ LET r == getRecord(State, zid, io)
       IN  /\ Len(r.st.fs[FileOf(zidFile)].data) <= getRecordLength * (1 + MaxPeers)
           /\ Become(r.st)
           /\ held' = r.rec
           /\ last' = Call("getRecord", zidFile, zid, 0, r.rec)
           /\ UNCHANGED <<identity, saved>>

GetRecord(zid) == GetRecordWith(zid, NoFault)

\* cache.saveRecord(held) for a record this cache's getRecord returned
SaveRecordWith(io) ==
    /\ zidFile # NULL
    /\ held.store = zidFile
    /\ Become(saveRecord(State, held, io))
    /\ last' = Call("saveRecord", zidFile, getIdentifier(held.data), 1, held)
    /\ saved' = [saved EXCEPT ![zidFile][getIdentifier(held.data)] = held.data]
    /\ UNCHANGED <<held, identity>>

SaveRecord == SaveRecordWith(NoFault)

\* the caller changes the record it holds
Mutate(data) ==
    /\ held # NoRecord
    /\ held' = [held EXCEPT !.data = data]
    /\ UNCHANGED <<fs, zidFile, associatedZid, errors, generated, last,
                   identity, saved>>

SetNewRs1(d)     == Mutate(setNewRs1(held.data, d))
SetSasVerified   == Mutate(setSasVerified(held.data))
ResetSasVerified == Mutate(resetSasVerified(held.data))

\* the calls of a caller that uses one file name
Calls(name) ==
    \/ Open(name)
    \/ Close
    \/ \E zid \in Zids : GetRecord(zid)
    \/ SaveRecord

Next ==
    \/ Calls("a.zid")
    \/ \E d \in Secrets : SetNewRs1(d)
    \/ SetSasVerified
    \/ ResetSasVerified

\* a new ZIDCacheFile object: zidFile(NULL), associatedZid not initialised
InitStore ==
    /\ zidFile = NULL
    /\ associatedZid \in Zids \cup {0}
    /\ errors = 0
    /\ generated = 0
    /\ held = NoRecord
    /\ last = [op |-> "new", name |-> NULL, zid |-> 0, ret |-> 0,
               rec |-> NoRecord, tick |-> 0]
    /\ identity = [p \in Paths |-> 0]
    /\ saved = [p \in Paths |-> [z \in Zids |-> <<>>]]

\* no file exists yet
Init ==
    /\ fs = [n \in Names |-> NoFile]
    /\ InitStore

Spec == Init /\ [][Next]_vars

\* a caller that uses either of two file names
NextPaths == \E name \in Paths : Calls(name)

SpecPaths == Init /\ [][NextPaths]_vars

\* a current-format file left by earlier runs or written by another program:
\* an own record, then records of any flags, then possibly the leading
\* cells of a record whose write did not complete
Leftover ==
    {setZid([ZIDRecordFile EXCEPT ![2] = f], z) :
        f \in {0, Valid, OwnZIDRecord}, z \in Zids}
Partial ==
    {SubSeq(setValid(setZid(ZIDRecordFile, z)), 1, n) :
        z \in Zids, n \in 0..(getRecordLength - 1)}
AnyFile ==
    {setOwnZIDRecord(setZid(ZIDRecordFile, z)) \o body \o tail :
        z \in Zids,
        body \in {<<>>} \cup Leftover \cup {a \o b : a, b \in Leftover},
        tail \in Partial}

InitAny ==
    /\ \E f \in {NoFile} \cup {[ex |-> TRUE, data |-> d] : d \in AnyFile} :
           fs = [n \in Names |-> IF n = FileOf("a.zid") THEN f ELSE NoFile]
    /\ InitStore

\* the caller changes the verified flag only
NextAny ==
    \/ Calls("a.zid")
    \/ SetSasVerified

SpecAny == InitAny /\ [][NextAny]_vars

\* a file written by the old version of the cache: the own record (leading
\* byte 0), then peer records, some not valid, some marked as own records;
\* and files that start like one but lack a whole own record
LegacyOwn(z) == <<0, 1, 0, 0, z, 0, 0>>
LegacyPeer ==
    {<<1, 0, f, 1, z, rs[1], rs[2]>> :
        f \in {1, 1 + SASVerified}, z \in Zids, rs \in {<<1, 0>>, <<1, 2>>}}
    \cup {<<0, 0, 1, 1, z, 1, 2>> : z \in Zids}
    \cup {<<1, 1, 1, 1, z, 1, 2>> : z \in Zids}
LegacyFile ==
    {LegacyOwn(z) \o body :
        z \in Zids,
        body \in {<<>>} \cup LegacyPeer \cup {a \o b : a, b \in LegacyPeer}}
    \cup {<<>>, <<0>>, <<0, 1, 0, 0>>}
    \cup {<<0, 0, 1, 1, z, 1, 2>> : z \in Zids}

InitLegacy ==
    /\ \E d \in LegacyFile :
           fs = [n \in Names |-> IF n = FileOf("a.zid")
                                 THEN [ex |-> TRUE, data |-> d] ELSE NoFile]
    /\ InitStore

SpecLegacy == InitLegacy /\ [][NextAny]_vars

\* a file whose leading cell is not 0 and that is not a well-formed store:
\* the leading cells of an own record, or a first record that is not an own
\* record, with or without records behind it
Damaged ==
    {SubSeq(setOwnZIDRecord(setZid(ZIDRecordFile, z)), 1, n) :
        z \in Zids, n \in 1..(getRecordLength - 1)}
    \cup {setZid([ZIDRecordFile EXCEPT ![2] = f], z) \o body :
             f \in {0, Valid}, z \in Zids, body \in {<<>>} \cup Leftover}

InitDamaged ==
    /\ \E d \in Damaged \cup AnyFile :
           fs = [n \in Names |-> IF n = FileOf("a.zid")
                                 THEN [ex |-> TRUE, data |-> d] ELSE NoFile]
    /\ InitStore

SpecDamaged == InitDamaged /\ [][NextAny]_vars

\* an environment in which calls fail: per operation either the rename, or
\* the fopen for writing, or some of the fwrite calls, of which then none
\* or some of the cells reach the file
Writes == 1..MaxPeers
Parts  == {getRecordLength - 2}
OpenFaults ==
    {NoFault, [NoFault EXCEPT !.renameOk = FALSE], [NoFault EXCEPT !.fopenOk = FALSE]}
    \cup {[NoFault EXCEPT !.failAt = s, !.part = n] :
             s \in (SUBSET Writes) \ {{}}, n \in Parts}
WriteFaults ==
    {NoFault} \cup {[NoFault EXCEPT !.failAt = {1}, !.part = n] : n \in Parts}

\* the legacy files the failing environment starts from: an own record
\* and two peer records, or a record not valid and a peer record; and a
\* file too short for the peek
LegacySample ==
    <<<<1, 0, 1, 1, 12, 1, 2>>, <<1, 0, 1 + SASVerified, 1, 11, 1, 0>>,
      <<0, 0, 1, 1, 12, 1, 2>>>>
FaultyFile ==
    {LegacyOwn(11) \o LegacySample[1] \o LegacySample[2],
     LegacyOwn(11) \o LegacySample[3] \o LegacySample[1],
     <<0>>}

InitFaulty ==
    /\ \E f \in {NoFile} \cup {[ex |-> TRUE, data |-> d] : d \in FaultyFile} :
           fs = [n \in Names |-> IF n = FileOf("a.zid") THEN f ELSE NoFile]
    /\ InitStore

\* open on an open store returns before any call that could fail
NextFaulty ==
    \/ \E io \in (IF zidFile = NULL THEN OpenFaults ELSE {NoFault}) :
           OpenWith("a.zid", io)
    \/ Close
    \/ \E zid \in Zids, io \in WriteFaults : GetRecordWith(zid, io)
    \/ \E io \in WriteFaults : SaveRecordWith(io)

SpecFaulty == InitFaulty /\ [][NextFaulty]_vars

(* ------------------------- views used by the properties ---------------- *)
\* the whole records of a file, record 0 first
NumRecords(data) == Len(data) \div getRecordLength
RecordAt(data, i) == SubSeq(data, i * getRecordLength + 1, (i + 1) * getRecordLength)
PeerIndexes(data) == 1..(NumRecords(data) - 1)
OpenData == fs[FileOf(zidFile)].data

\* this step is a call op on the cache
IsCall(op) == last'.tick # last.tick /\ last'.op = op

IsValidPeer(r) == isValid(r) /\ ~isOwnZIDRecord(r)

(* ------------------------------- C1 ------------------------------------ *)
\* C1: the record getRecord returns is never an own record and never a
\* record with valid = false: the scan passes over such records even when
\* their identifier equals the one looked up.
C1_ReturnedRecordIsValidPeer ==
    last.op = "getRecord" => IsValidPeer(last.rec.data)

(* ------------------------------- C2 ------------------------------------ *)
NoDuplicatePeers ==
    \A p \in Paths :
        LET d == fs[FileOf(p)].data
        IN  \A i, j \in PeerIndexes(d) :
                (/\ i # j
                 /\ IsValidPeer(RecordAt(d, i))
                 /\ IsValidPeer(RecordAt(d, j)))
                => getIdentifier(RecordAt(d, i)) # getIdentifier(RecordAt(d, j))

AppendOnlyOnMiss ==
    (IsCall("getRecord") /\ fs' # fs)
    => \A i \in PeerIndexes(OpenData) :
           IsValidPeer(RecordAt(OpenData, i))
           => getIdentifier(RecordAt(OpenData, i)) # last'.zid

\* C2: from a store created by open, no two valid peer records of a file
\* carry the same identifier, and getRecord(zid) changes the file only when
\* no valid peer record with identifier zid is in it.
C2_UniquePeerIdentifiers == []NoDuplicatePeers /\ [][AppendOnlyOnMiss]_vars

\* two peers are in the file and a record saved earlier is looked up again
C2_Witness ==
    /\ last.op = "getRecord"
    /\ NumRecords(fs[FileOf("a.zid")].data) = 3
    /\ saved["a.zid"][last.zid] # <<>>

(* ------------------------------- C3 ------------------------------------ *)
HeaderIsOwnRecord ==
    zidFile # NULL =>
        /\ NumRecords(OpenData) >= 1
        /\ isOwnZIDRecord(RecordAt(OpenData, 0))
        /\ getIdentifier(RecordAt(OpenData, 0)) = associatedZid
        /\ \A i \in PeerIndexes(OpenData) : ~isOwnZIDRecord(RecordAt(OpenData, i))

HeaderNotWritten ==
    /\ IsCall("getRecord") =>
           /\ last'.rec.position >= getRecordLength
           /\ RecordAt(fs'[FileOf(zidFile)].data, 0) = RecordAt(OpenData, 0)
    /\ IsCall("saveRecord") =>
           /\ last'.rec.position >= getRecordLength
           /\ RecordAt(fs'[FileOf(zidFile)].data, 0) = RecordAt(OpenData, 0)

\* C3: while the store is open, record 0 is an own record holding the cached
\* own ZID, no later record is an own record, and getRecord and saveRecord
\* write at offsets behind record 0 and leave record 0 as it is.
C3_HeaderRecord == []HeaderIsOwnRecord /\ [][HeaderNotWritten]_vars

\* a changed record was saved into a file of three records
C3_Witness ==
    /\ zidFile # NULL
    /\ last.op = "saveRecord"
    /\ NumRecords(OpenData) = 3
    /\ held.data # setValid(setZid(ZIDRecordFile, getIdentifier(held.data)))

(* ------------------------------- C4 ------------------------------------ *)
OpenCreates ==
    \A name \in Paths :
        (/\ IsCall("open") /\ last'.name = name
         /\ zidFile = NULL /\ ~fs[FileOf(name)].ex)
        => /\ last'.ret = 1
           /\ zidFile' = name
           /\ generated' \in Zids
           /\ associatedZid' = generated'
           /\ fs'[FileOf(name)].ex
           /\ Len(fs'[FileOf(name)].data) = getRecordLength
           /\ isOwnZIDRecord(RecordAt(fs'[FileOf(name)].data, 0))
           /\ getIdentifier(RecordAt(fs'[FileOf(name)].data, 0)) = generated'

\* C4: open of a name at which no file exists returns 1, leaves the store
\* open and the file holding exactly one record, an own record with the
\* ZID randomZRTP produced, which is also the cached own ZID.
C4_FreshStore == [][OpenCreates]_vars

\* open has just created the file
C4_Witness ==
    /\ last.op = "open" /\ last.ret = 1
    /\ zidFile = "a.zid"
    /\ Len(OpenData) = getRecordLength
    /\ associatedZid = generated

(* ------------------------------- C5 ------------------------------------ *)
IdentityKept == zidFile # NULL => associatedZid = identity[zidFile]

ReopenSucceeds ==
    \A name \in Paths :
        (/\ IsCall("open") /\ last'.name = name
         /\ zidFile = NULL /\ identity[name] # 0)
        => /\ last'.ret = 1
           /\ associatedZid' = identity[name]
           /\ generated' = generated

\* C5: once open(name) has succeeded, every later open(name) of the closed
\* store succeeds and caches the own ZID the first open gave; no new ZID is
\* generated.
C5_ReopenKeepsIdentity == []IdentityKept /\ [][ReopenSucceeds]_vars

\* the file is open again after a session that saved a record
C5_Witness ==
    /\ last.op = "open" /\ last.ret = 1
    /\ \E z \in Zids : saved[last.name][z] # <<>>
    /\ NumRecords(OpenData) >= 2

(* ------------------------------- C6 ------------------------------------ *)
HasRecordFor(data, zid) ==
    \E i \in PeerIndexes(data) : getIdentifier(RecordAt(data, i)) = zid

CreateOnMiss ==
    IsCall("getRecord") =>
        IF HasRecordFor(OpenData, last'.zid)
        THEN fs' = fs
        ELSE /\ isValid(last'.rec.data)
             /\ ~isOwnZIDRecord(last'.rec.data)
             /\ ~isSasVerified(last'.rec.data)
             /\ getIdentifier(last'.rec.data) = last'.zid
             /\ getRs1Data(last'.rec.data) = 0
             /\ getRs2Data(last'.rec.data) = 0
             /\ fs'[FileOf(zidFile)].data = OpenData \o last'.rec.data
             /\ \A n \in Names : n # FileOf(zidFile) => fs'[n] = fs[n]

\* C6: getRecord(zid) on a file none of whose records behind the first has
\* identifier zid returns a valid peer record for zid with zeroed secrets
\* and appends exactly that record, all earlier content staying as it was;
\* when such a record exists the call leaves every file as it is.
C6_CreateOnMiss == [][CreateOnMiss]_vars

\* a record was created behind an earlier peer record
C6_Witness ==
    /\ last.op = "getRecord"
    /\ NumRecords(OpenData) = 3
    /\ last.rec.position = 2 * getRecordLength
    /\ RecordAt(OpenData, 2) = setValid(setZid(ZIDRecordFile, last.zid))
    /\ getIdentifier(RecordAt(OpenData, 1)) # last.zid

(* ------------------------------- C7 ------------------------------------ *)
RepeatedLookup ==
    (IsCall("getRecord") /\ last.op = "getRecord" /\ last'.zid = last.zid)
    => /\ last'.rec.position = last.rec.position
       /\ last'.rec.data = last.rec.data
       /\ fs' = fs

\* C7: of two consecutive getRecord(zid) calls the second returns the
\* offset and the content the first returned and appends nothing.
C7_RepeatedLookup == [][RepeatedLookup]_vars

(* ------------------------------- C8 ------------------------------------ *)
SavePersists ==
    IsCall("getRecord") =>
        LET sv == saved[zidFile][last'.zid]
        IN  IF sv # <<>>
            THEN last'.rec.data = sv
            ELSE last'.rec.data = setValid(setZid(ZIDRecordFile, last'.zid))

\* C8: getRecord(zid) returns the data last passed to saveRecord for zid in
\* this file, in the same session or a later one and whatever was looked
\* up, created or saved for other identifiers since; changes made to a
\* record that was not saved do not show (before any save the record is as
\* getRecord created it).
C8_SavePersists == [][SavePersists]_vars

\* after a reopen, a record saved with a new RS1 is returned while the
\* caller's last record was one for another identifier
C8_Witness ==
    /\ last.op = "getRecord"
    /\ getRs1Data(last.rec.data) # 0
    /\ last.rec.data = saved["a.zid"][last.zid]
    /\ \E z \in Zids : z # last.zid /\ saved["a.zid"][z] # <<>>
                       /\ saved["a.zid"][z] # setValid(setZid(ZIDRecordFile, z))

(* ------------------------------- C9 ------------------------------------ *)
StateMachine ==
    /\ (zidFile = NULL /\ zidFile' # NULL)
           => IsCall("open") /\ last'.ret = 1 /\ zidFile' = last'.name
    /\ (zidFile # NULL /\ zidFile' # zidFile) => IsCall("close") /\ zidFile' = NULL
    /\ (IsCall("open") /\ last'.ret = 1) => zidFile' = last'.name
    /\ (IsCall("open") /\ zidFile # NULL)
           => /\ last'.ret = 0
              /\ UNCHANGED <<fs, zidFile, associatedZid, errors, generated>>
    /\ (IsCall("close") /\ zidFile = NULL)
           => UNCHANGED <<fs, zidFile, associatedZid, errors, generated>>

\* C9: the store becomes open only by an open that returns 1 and closed
\* only by close; open on an open store returns 0 and changes neither the
\* handle, the cached own ZID nor any file, whatever name it is given;
\* close on a closed store changes nothing.
C9_StateMachine == [][StateMachine]_vars

\* open was called with another name while a file was open
C9_Witness ==
    /\ last.op = "open" /\ last.ret = 0
    /\ zidFile # NULL /\ last.name # zidFile
    /\ ~fs[FileOf(last.name)].ex

(* ------------------------------- C10 ----------------------------------- *)
NumLegacy(old) == Len(old) \div sizeofZidrecord1
LegacyAt(old, i) == SubSeq(old, i * sizeofZidrecord1 + 1, (i + 1) * sizeofZidrecord1)
LegacyTail(old) == [i \in 1..(NumLegacy(old) - 1) |-> LegacyAt(old, i)]
IsLegacyPeer(r) == ownZidOf(r) # 1
IsLegacyValidPeer(r) == ownZidOf(r) # 1 /\ recValidOf(r) # 0
\* a legacy file with its own record in front
IsLegacy(f) ==
    /\ f.ex /\ NumLegacy(f.data) >= 1
    /\ f.data[1] = 0
    /\ ownZidOf(LegacyAt(f.data, 0)) = 1

MigrationComplete ==
    \A name \in Paths :
        (/\ IsCall("open") /\ last'.name = name
         /\ zidFile = NULL /\ IsLegacy(fs[FileOf(name)]))
        => LET old  == fs[FileOf(name)].data
               new  == fs'[FileOf(name)].data
               K    == Len(SelectSeq(LegacyTail(old), IsLegacyPeer))
               M    == K - Len(SelectSeq(LegacyTail(old), IsLegacyValidPeer))
               kept == SelectSeq(LegacyTail(old), IsLegacyValidPeer)
           IN  /\ last'.ret = 1
               /\ Len(new) = getRecordLength * (1 + K - M)
               /\ isOwnZIDRecord(RecordAt(new, 0))
               /\ getIdentifier(RecordAt(new, 0)) = identifierOf(LegacyAt(old, 0))
               /\ \A i \in 1..(K - M) :
                      /\ isValid(RecordAt(new, i))
                      /\ ~isOwnZIDRecord(RecordAt(new, i))
                      /\ getIdentifier(RecordAt(new, i)) = identifierOf(kept[i])
                      /\ isSasVerified(RecordAt(new, i))
                             <=> HasBit(rs1ValidOf(kept[i]), SASVerified)

\* C10: open of a legacy file (own record, then K peer records of which M
\* have recValid = 0, and possibly further own records) leaves a file of
\* one own record and K - M peer records in the legacy order, each valid,
\* not an own record, with the legacy identifier and with sasVerified set
\* exactly when the legacy SASVerified bit was set.
C10_MigrationComplete == [][MigrationComplete]_vars

\* a legacy file of an own record, a record that is not valid, a further own
\* record or a verified peer has just been migrated
C10_Witness ==
    /\ last.op = "open" /\ last.ret = 1
    /\ fs[SaveOf("a.zid")].ex
    /\ NumLegacy(fs[SaveOf("a.zid")].data) = 3
    /\ NumRecords(OpenData) = 2
    /\ isSasVerified(RecordAt(OpenData, 1))
    /\ identity["a.zid"] = identifierOf(LegacyAt(fs[SaveOf("a.zid")].data, 0))

(* ------------------------------- C11 ----------------------------------- *)
MigrationKeepsIdentity ==
    \A name \in Paths :
        (/\ IsCall("open") /\ last'.name = name
         /\ zidFile = NULL /\ IsLegacy(fs[FileOf(name)]))
        => /\ last'.ret = 1
           /\ associatedZid' = identifierOf(LegacyAt(fs[FileOf(name)].data, 0))
           /\ fs'[SaveOf(name)] = fs[FileOf(name)]

MigrationOnce ==
    \A name \in Paths :
        /\ (IsCall("open") /\ last'.name = name /\ identity[name] # 0)
               => /\ fs' = fs
                  /\ zidFile = NULL => (last'.ret = 1 /\ associatedZid' = identity[name])
        /\ fs[SaveOf(name)].ex => fs'[SaveOf(name)] = fs[SaveOf(name)]

\* C11: open of a legacy file with its own record in front succeeds, caches
\* the identifier of the legacy own record and leaves under <name>.save a
\* file with exactly the content the legacy file had; every open after the
\* first successful one leaves all files as they are and gives the same
\* identifier, and a .save file once there never changes.
C11_MigrationKeepsIdentityAndBackup ==
    [][MigrationKeepsIdentity /\ MigrationOnce]_vars

\* the migrated store is open again after a session that saved a record,
\* the legacy file with its peer records is still there under .save
C11_Witness ==
    /\ last.op = "open" /\ last.ret = 1
    /\ IsLegacy(fs[SaveOf("a.zid")])
    /\ NumLegacy(fs[SaveOf("a.zid")].data) = 3
    /\ associatedZid = identifierOf(LegacyAt(fs[SaveOf("a.zid")].data, 0))
    /\ \E z \in Zids : saved["a.zid"][z] # <<>>

(* ------------------------------- C12 ----------------------------------- *)
\* open runs the migration on it: the leading cell is 0 or the peek of two
\* cells fails
TreatedAsLegacy(f) == f.ex /\ (Len(f.data) < 2 \/ f.data[1] = 0)

\* of the calls of the operation only the rename fails
RenameFails == [NoFault EXCEPT !.renameOk = FALSE]

RenameFallback ==
    \A name \in Paths :
        (/\ IsCall("open") /\ last'.name = name
         /\ zidFile = NULL /\ TreatedAsLegacy(fs[FileOf(name)])
         /\ OpenWith(name, RenameFails))
        => /\ last'.ret = 1
           /\ zidFile' = name
           /\ generated' \in Zids
           /\ associatedZid' = generated'
           /\ fs'[FileOf(name)] =
                  [ex |-> TRUE,
                   data |-> setOwnZIDRecord(setZid(ZIDRecordFile, generated'))]
           /\ fs'[SaveOf(name)] = fs[SaveOf(name)]

\* C12: when open finds a file it treats as legacy and the rename to
\* <name>.save fails (the calls after it succeeding), open returns 1 and the
\* file at name is exactly one record, an own record with the identifier
\* just generated, which is the cached own ZID; nothing of the legacy file
\* is left in it and no .save file is made.
C12_RenameFallback == [][RenameFallback]_vars

\* the store is open on a new one-record file, no .save file exists, and
\* the error counter shows the failed peek into the legacy file that was
\* there before
C12_Witness ==
    /\ last.op = "open" /\ last.ret = 1
    /\ zidFile = "a.zid"
    /\ OpenData = setOwnZIDRecord(setZid(ZIDRecordFile, generated))
    /\ ~fs[SaveOf("a.zid")].ex
    /\ errors = 1
    /\ held = NoRecord

(* ------------------------------- C13 ----------------------------------- *)
\* the first zidrecord1_t of the file cannot be read or has ownZid # 1
FirstRecordUnusable(f) ==
    LET first == fread(f.data, 0, sizeofZidrecord1)
    IN  first.n # 1 \/ ownZidOf(first.buf) # 1

MigrationAborts ==
    \A name \in Paths :
        (/\ IsCall("open") /\ last'.name = name /\ zidFile = NULL
         /\ TreatedAsLegacy(fs[FileOf(name)])
         /\ FirstRecordUnusable(fs[FileOf(name)]))
        => /\ last'.ret = -1
           /\ zidFile' = NULL
           /\ ~fs'[FileOf(name)].ex
           /\ fs'[SaveOf(name)] = fs[FileOf(name)]

\* C13: open of a file it treats as legacy (leading cell 0, or fewer than
\* two cells) whose first legacy record cannot be read or has ownZid # 1,
\* the rename to .save having succeeded, returns -1 and leaves the store
\* closed and no file at name (the file is now the .save file).
C13_MigrationAborts == [][MigrationAborts]_vars

\* open has failed on a legacy file whose first record is a whole record
\* not marked ownZid; the file is under .save and name is gone
C13_Witness ==
    /\ last.op = "open" /\ last.ret = -1
    /\ zidFile = NULL
    /\ ~fs[FileOf("a.zid")].ex
    /\ fs[SaveOf("a.zid")].ex
    /\ NumLegacy(fs[SaveOf("a.zid")].data) = 1
    /\ ownZidOf(LegacyAt(fs[SaveOf("a.zid")].data, 0)) # 1

(* ------------------------------- C14 ----------------------------------- *)
FailedOpenRepeats ==
    \A name \in Paths :
        (/\ last.op = "open" /\ last.ret = -1 /\ last.name = name
         /\ IsCall("open") /\ last'.name = name)
        => \/ last'.ret = -1
           \/ /\ last'.ret = 1
              /\ generated' = generated
              /\ identity[name] # 0
              /\ associatedZid' = identity[name]

\* C14: an open(name) that follows a failed open(name) of an existing file,
\* no file having been deleted or replaced by the caller in between, fails
\* again or gives the store with the identity it had; it does not succeed
\* with an identity generated in this call.
C14_FailedOpenRepeats == [][FailedOpenRepeats]_vars

(* ------------------------------- C15 ----------------------------------- *)
\* C15: after an open that returned 1 the store is open and the first
\* record of its file is a whole own record with the cached own ZID; after
\* an open that returned -1 the store is closed; and this on every path of
\* open, also when the creation of the file or the write of the header
\* record fails.
C15_OpenAllOrNothing ==
    last.op = "open" =>
        /\ last.ret = 1 =>
               /\ zidFile = last.name
               /\ NumRecords(OpenData) >= 1
               /\ isOwnZIDRecord(RecordAt(OpenData, 0))
               /\ getIdentifier(RecordAt(OpenData, 0)) = associatedZid
        /\ last.ret = -1 => zidFile = NULL

(* ------------------------------- C16 ----------------------------------- *)
SecretsCarried ==
    \A name \in Paths :
        (/\ IsCall("open") /\ last'.name = name
         /\ zidFile = NULL /\ IsLegacy(fs[FileOf(name)]))
        => LET new  == fs'[FileOf(name)].data
               kept == SelectSeq(LegacyTail(fs[FileOf(name)].data), IsLegacyValidPeer)
           IN  /\ NumRecords(new) = 1 + Len(kept)
               /\ \A i \in 1..Len(kept) :
                      /\ getRs1Data(RecordAt(new, i)) = rs1DataOf(kept[i])
                      /\ getRs2Data(RecordAt(new, i)) = rs2DataOf(kept[i])

NoMigrationOfCurrent ==
    \A name \in Paths :
        (/\ IsCall("open") /\ last'.name = name /\ zidFile = NULL
         /\ fs[FileOf(name)].ex
         /\ Len(fs[FileOf(name)].data) >= 1
         /\ fs[FileOf(name)].data[1] # 0)
        => fs' = fs

\* C17: open of an existing file whose leading cell is not 0, of whatever
\* length and with whatever content behind it, leaves every file as it is,
\* whether it returns 1 or -1: the file is not renamed, no .save file
\* appears or changes, nothing is removed.
C17_NoMigrationOfCurrent == [][NoMigrationOfCurrent]_vars

(* ------------------------------- C18 ----------------------------------- *)
OffsetsStay ==
    \A name \in Paths :
        LET old == fs[FileOf(name)].data
            new == fs'[FileOf(name)].data
        IN  (fs[FileOf(name)].ex /\ NumRecords(old) >= 1 /\ old[1] # 0)
            => /\ fs'[FileOf(name)].ex
               /\ NumRecords(new) >= NumRecords(old)
               /\ \A i \in 0..(NumRecords(old) - 1) :
                      getIdentifier(RecordAt(new, i)) = getIdentifier(RecordAt(old, i))

\* C18: over every step taken on a current-format file (lookups, saves of
\* records whose identifier the caller left alone, close, reopen) the number
\* of whole records does not decrease and the record at each offset, so
\* also at each offset getRecord has handed out, keeps its identifier.
C18_OffsetsStay == [][OffsetsStay]_vars

(* ------------------------------- C19 ----------------------------------- *)
\* of the first n fwrite calls of an operation, those that fail
FailedWrites(io, n) == Cardinality({w \in 1..n : Failed(io, w) = 1})

\* the cells the first n fwrite calls of an operation put into the file
RECURSIVE WrittenUpTo(_, _)
WrittenUpTo(io, n) == IF n = 0 THEN 0 ELSE Written(io, n) + WrittenUpTo(io, n - 1)

LookupCountsFailure ==
    IsCall("getRecord") =>
        \A io \in WriteFaults :
            GetRecordWith(last'.zid, io)
            => /\ errors' = errors + (IF HasRecordFor(OpenData, last'.zid)
                                      THEN 0 ELSE FailedWrites(io, 1))
               /\ getIdentifier(held'.data) = last'.zid
               /\ held'.position >= getRecordLength
               /\ zidFile' = zidFile

SaveCountsFailure ==
    IsCall("saveRecord") =>
        \A io \in WriteFaults :
            SaveRecordWith(io)
            => /\ errors' = errors + FailedWrites(io, 1)
               /\ last'.ret = 1
               /\ zidFile' = zidFile

MigrationCountsFailures ==
    (IsCall("open") /\ zidFile = NULL /\ IsLegacy(fs[FileOf(last'.name)])) =>
        \A io \in OpenFaults :
            (io.renameOk /\ io.fopenOk /\ OpenWith(last'.name, io))
            => LET new  == fs'[FileOf(last'.name)].data
                   kept == SelectSeq(LegacyTail(fs[FileOf(last'.name)].data),
                                     IsLegacyValidPeer)
               IN  /\ errors' = errors + FailedWrites(io, 1 + Len(kept))
                   /\ Len(new) = WrittenUpTo(io, 1 + Len(kept))
                   /\ \A i \in 1..Len(kept) :
                          Failed(io, 1 + i) = 0
                          => getIdentifier(SubSeq(new, WrittenUpTo(io, i) + 1,
                                                  WrittenUpTo(io, i) + getRecordLength))
                                 = identifierOf(kept[i])

\* C19: a getRecord, a saveRecord or a migration raises the error counter
\* by the number of its record writes that failed, and by nothing when none
\* failed; getRecord still returns a record with the identifier asked for
\* and an offset, saveRecord still returns 1, the store stays open, and the
\* migration still copies every valid legacy peer record behind the write
\* that failed.
C19_WriteFailuresCounted ==
    [][LookupCountsFailure /\ SaveCountsFailure /\ MigrationCountsFailures]_vars

\* a migration of two valid peer records has counted the failed write of
\* an earlier record (part of it reached the file) and copied the second
\* peer record behind it
C19_Witness ==
    /\ last.op = "open"
    /\ errors = 1
    /\ IsLegacy(fs[SaveOf("a.zid")])
    /\ NumLegacy(fs[SaveOf("a.zid")].data) = 3
    /\ Len(fs[FileOf("a.zid")].data) = 3 * getRecordLength - 2
    /\ getIdentifier(SubSeq(fs[FileOf("a.zid")].data, 2 * getRecordLength - 1,
                            3 * getRecordLength - 2))
           = identifierOf(LegacyAt(fs[SaveOf("a.zid")].data, 2))

(* ------------------------------- C20 ----------------------------------- *)
CreatedAtReturnedOffset ==
    (IsCall("getRecord") /\ fs' # fs)
    => LET d   == fs'[FileOf(zidFile)].data
           pos == last'.rec.position
       IN  /\ pos + getRecordLength <= Len(d)
           /\ SubSeq(d, pos + 1, pos + getRecordLength) = last'.rec.data
           /\ saveRecord([State EXCEPT !.fs = fs'], last'.rec, NoFault).fs = fs'

\* C20: when getRecord creates a record, the cells of the file at the
\* offset stored in the returned record are the record just written, so
\* that saveRecord of this record writes over exactly these cells; and this
\* whatever the file holds, a partially written trailing record included.
C20_CreatedAtReturnedOffset == [][CreatedAtReturnedOffset]_vars

====
